---------------------------- MODULE Spec2Model ----------------------------
(***************************************************************************)
(* Model of src/server/mariadb.server.ts (class MariaDB): the WHERE        *)
(* compiler, the identifier protector, the statement assemblers, the      *)
(* chunk planner and the execution facade over the pooled client.         *)
(*                                                                         *)
(* SQL text is a sequence of one-character strings, so that placeholder    *)
(* counting, quoting and concatenation are computed as the code computes   *)
(* them.  The quoting character (the grave accent) cannot be written in a  *)
(* TLA+ string and is the symbol BQ.                                       *)
(***************************************************************************)
EXTENDS Integers, Sequences, FiniteSets, TLC

VARIABLES
    dbConfig,    \* this.dbConfig: which connection fields are set, and the limit
    pool,        \* this.pool: up = FALSE while undefined; limit = its connectionLimit
    held,        \* connections taken from the pool and not released
    chunkCache,  \* the memoization store: 'chunk' + sql -> chunk table
    rows,        \* the database: number of rows the queried table holds
    pc,          \* per request: where its async call is suspended
    req,         \* per request: the call and its locals
    sent,        \* per request: the statements it handed to the pooled client
    res,         \* per request: what the call returned or threw
    arg,         \* input of the pure function under check
    ret          \* output of the pure function under check

stateVars == <<dbConfig, pool, held, chunkCache, rows>>
reqVars == <<pc, req, sent, res>>
facadeVars == <<dbConfig, pool, held, chunkCache, rows, pc, req, sent, res>>
fnVars == <<arg, ret>>
vars == <<dbConfig, pool, held, chunkCache, rows, pc, req, sent, res, arg, ret>>

---------------------------------------------------------------------------
(* Text helpers (JavaScript string primitives on character sequences).     *)

UpperCase == <<"A","B","C","D","E","F","G","H","I","J","K","L","M",
               "N","O","P","Q","R","S","T","U","V","W","X","Y","Z">>
LowerCase == <<"a","b","c","d","e","f","g","h","i","j","k","l","m",
               "n","o","p","q","r","s","t","u","v","w","x","y","z">>
Digit == <<"0","1","2","3","4","5","6","7","8","9">>

BQ == "BQ"

Range(s) == {s[i] : i \in DOMAIN s}

\* String.prototype.toLowerCase, one character
toLowerChar(c) ==
    IF \E i \in DOMAIN UpperCase : UpperCase[i] = c
    THEN LowerCase[CHOOSE i \in DOMAIN UpperCase : UpperCase[i] = c]
    ELSE c

toLowerCase(s) == [i \in DOMAIN s |-> toLowerChar(s[i])]

\* the regular-expression class [a-zA-Z0-9_] (also \w)
IsWordChar(c) == c \in Range(UpperCase) \cup Range(LowerCase) \cup Range(Digit) \cup {"_"}

\* Array.prototype.join
RECURSIVE Join(_, _)
Join(parts, sep) ==
    IF Len(parts) = 0 THEN <<>>
    ELSE IF Len(parts) = 1 THEN parts[1]
    ELSE parts[1] \o sep \o Join(Tail(parts), sep)

\* Array.prototype.flat on a list of lists (also the flattening of flatMap)
RECURSIVE Flat(_)
Flat(lists) ==
    IF Len(lists) = 0 THEN <<>> ELSE lists[1] \o Flat(Tail(lists))

\* String.prototype.split on a one-character separator
RECURSIVE Split(_, _)
Split(s, sep) ==
    IF \A i \in DOMAIN s : s[i] # sep THEN <<s>>
    ELSE LET i == CHOOSE j \in DOMAIN s : s[j] = sep /\ \A k \in 1..(j - 1) : s[k] # sep
         IN  <<SubSeq(s, 1, i - 1)>> \o Split(SubSeq(s, i + 1, Len(s)), sep)

\* String.prototype.startsWith
StartsWith(text, prefix) ==
    Len(text) >= Len(prefix) /\ SubSeq(text, 1, Len(prefix)) = prefix

\* String.prototype.slice(n)
Drop(text, n) == SubSeq(text, n + 1, Len(text))

\* String.prototype.includes
Includes(text, part) ==
    \E i \in 1..(Len(text) - Len(part) + 1) : SubSeq(text, i, i + Len(part) - 1) = part

\* number of '?' characters in a text
RECURSIVE CountQ(_)
CountQ(s) ==
    IF Len(s) = 0 THEN 0
    ELSE (IF s[1] = "?" THEN 1 ELSE 0) + CountQ(Tail(s))

\* template-literal rendering of a non-negative integer
RECURSIVE NumText(_)
NumText(n) ==
    IF n < 10 THEN <<Digit[n + 1]>>
    ELSE NumText(n \div 10) \o <<Digit[(n % 10) + 1]>>

---------------------------------------------------------------------------
(* IdentifierProtector                                                     *)

reservedWords == {
    <<"n","o","t">>, <<"o","r","d","e","r">>, <<"g","r","o","u","p">>,
    <<"l","i","m","i","t">>, <<"o","f","f","s","e","t">>, <<"b","y">>,
    <<"w","h","e","r","e">>, <<"f","r","o","m">>,
    <<"s","e","l","e","c","t">>, <<"u","p","d","a","t","e">>,
    <<"d","e","l","e","t","e">>, <<"a","d","d">>, <<"a","l","t","e","r">>,
    <<"c","o","l","u","m","n">>, <<"t","a","b","l","e">>,
    <<"i","n","t","o">>, <<"s","e","t">>, <<"v","a","l","u","e","s">>,
    <<"a","s">>, <<"a","n","d">>, <<"o","r">>, <<"j","o","i","n">>,
    <<"o","n">>, <<"h","a","v","i","n","g">>, <<"c","a","s","e">>,
    <<"w","h","e","n">>, <<"t","h","e","n">>, <<"e","l","s","e">>,
    <<"e","n","d">>, <<"l","i","k","e">>, <<"i","n">>,
    <<"b","e","t","w","e","e","n">>, <<"i","s">>, <<"n","u","l","l">>,
    <<"a","s","c">>, <<"d","e","s","c">>,
    <<"d","i","s","t","i","n","c","t">>, <<"a","l","l">>,
    <<"e","x","i","s","t","s">>, <<"a","n","y">>, <<"s","o","m","e">>,
    <<"i","n","n","e","r">>, <<"o","u","t","e","r">>, <<"l","e","f","t">>,
    <<"r","i","g","h","t">>, <<"f","u","l","l">>, <<"c","r","o","s","s">>,
    <<"u","s","i","n","g">>, <<"n","a","t","u","r","a","l">> }

\* protectFieldName without the pass-through of a name already in backticks
RECURSIVE protectFieldName_noPassThrough(_)
protectFieldName_noPassThrough(fieldName) ==
    IF \E i \in DOMAIN fieldName : fieldName[i] = "."
    THEN LET parts == Split(fieldName, ".")
         IN  Join([i \in DOMAIN parts |-> protectFieldName_noPassThrough(parts[i])], <<".">>)
    ELSE IF \/ toLowerCase(fieldName) \in reservedWords
            \/ \E i \in DOMAIN fieldName : ~IsWordChar(fieldName[i])
    THEN <<BQ>> \o fieldName \o <<BQ>>
    ELSE fieldName

\* lines 612-640
RECURSIVE protectFieldName(_)
protectFieldName(fieldName) ==
    IF Len(fieldName) > 0 /\ fieldName[1] = BQ /\ fieldName[Len(fieldName)] = BQ
    THEN fieldName
    ELSE IF \E i \in DOMAIN fieldName : fieldName[i] = "."
    THEN LET parts == Split(fieldName, ".")
         IN  Join([i \in DOMAIN parts |-> protectFieldName(parts[i])], <<".">>)
    ELSE IF \/ toLowerCase(fieldName) \in reservedWords
            \/ \E i \in DOMAIN fieldName : ~IsWordChar(fieldName[i])
    THEN <<BQ>> \o fieldName \o <<BQ>>
    ELSE fieldName

---------------------------------------------------------------------------
(* WhereCompiler                                                           *)
(*                                                                         *)
(* A WhereSpec value (type Where, plus undefined/null):                    *)
(*   tag "none"  undefined or null                                         *)
(*   tag "str"   a string                     (field str)                  *)
(*   tag "strs"  a non-empty array of strings (field strs)                 *)
(*   tag "map"   a plain object               (field map: entries in       *)
(*               Object.keys order, each [k |-> key, v |-> value])         *)
(*   tag "maps"  an array of objects or nulls (field maps, each            *)
(*               [null |-> BOOLEAN, map |-> entries]); also the empty array*)
(* A WhereParams value: tag "undef", "scalar" (field v) or "list" (l).     *)

WNone == [tag |-> "none", str |-> <<>>, strs |-> <<>>, map |-> <<>>, maps |-> <<>>]
WStr(s) == [tag |-> "str", str |-> s, strs |-> <<>>, map |-> <<>>, maps |-> <<>>]
WStrs(l) == [tag |-> "strs", str |-> <<>>, strs |-> l, map |-> <<>>, maps |-> <<>>]
WMap(m) == [tag |-> "map", str |-> <<>>, strs |-> <<>>, map |-> m, maps |-> <<>>]
WMaps(l) == [tag |-> "maps", str |-> <<>>, strs |-> <<>>, map |-> <<>>, maps |-> l]

PUndef == [tag |-> "undef", v |-> 0, l |-> <<>>]
PScalar(x) == [tag |-> "scalar", v |-> x, l |-> <<>>]
PList(xs) == [tag |-> "list", v |-> 0, l |-> xs]

ObjectKeys(m) == [i \in DOMAIN m |-> m[i].k]
ObjectValues(m) == [i \in DOMAIN m |-> m[i].v]

\* JavaScript truthiness of a Where value: undefined, null and the empty string are falsy
Truthy(where) ==
    /\ where.tag # "none"
    /\ ~(where.tag = "str" /\ Len(where.str) = 0)

IsArray(where) == where.tag \in {"strs", "maps"}
ArrayLength(where) == IF where.tag = "strs" THEN Len(where.strs) ELSE Len(where.maps)

TxtAnd == <<" ","A","N","D"," ">>
TxtOr == <<" ","O","R"," ">>
TxtEqQ == <<" ","="," ","?">>
TxtTrue == <<"1"," ","="," ","1">>
TxtObject == <<"[","o","b","j","e","c","t"," ","O","b","j","e","c","t","]">>

\* safeKey + ' = ?' for every key of one object, AND-joined
KeyPredicates(m) ==
    Join([i \in DOMAIN m |-> protectFieldName(m[i].k) \o TxtEqQ], TxtAnd)

\* Array.prototype.filter(Boolean) on a list of strings
RECURSIVE FilterNonEmpty(_)
FilterNonEmpty(parts) ==
    IF Len(parts) = 0 THEN <<>>
    ELSE (IF Len(parts[1]) = 0 THEN <<>> ELSE <<parts[1]>>) \o FilterNonEmpty(Tail(parts))

\* String(where) for the values that fall through every branch
StringOfWhere(where) ==
    IF where.tag = "strs" THEN Join(where.strs, <<",">>)
    ELSE Join([i \in DOMAIN where.maps |->
                 IF where.maps[i].null THEN <<>> ELSE TxtObject], <<",">>)

\* buildWhere without .filter(Boolean): null mappings leave an empty clause
buildWhere_noFilter(where) ==
    IF ~Truthy(where) THEN TxtTrue
    ELSE IF where.tag = "str" THEN where.str
    ELSE IF IsArray(where) /\ ArrayLength(where) > 0 /\ where.tag = "strs"
    THEN Join(where.strs, TxtAnd)
    ELSE IF where.tag = "map" THEN KeyPredicates(where.map)
    ELSE IF IsArray(where) /\ ArrayLength(where) > 0 /\ where.tag = "maps"
    THEN Join([i \in DOMAIN where.maps |->
                 IF where.maps[i].null THEN <<>>
                 ELSE <<"(">> \o KeyPredicates(where.maps[i].map) \o <<")">>],
              TxtOr)
    ELSE StringOfWhere(where)

buildWhere(where) ==
    IF ~Truthy(where) THEN TxtTrue
    ELSE IF where.tag = "str" THEN where.str
    ELSE IF IsArray(where) /\ ArrayLength(where) > 0 /\ where.tag = "strs"
    THEN Join(where.strs, TxtAnd)
    ELSE IF where.tag = "map" THEN KeyPredicates(where.map)
    ELSE IF IsArray(where) /\ ArrayLength(where) > 0 /\ where.tag = "maps"
    THEN Join(FilterNonEmpty([i \in DOMAIN where.maps |->
                 IF where.maps[i].null THEN <<>>
                 ELSE <<"(">> \o KeyPredicates(where.maps[i].map) \o <<")">>]),
              TxtOr)
    ELSE StringOfWhere(where)

\* buildWhereParams without the array-of-objects branch
buildWhereParams_noObjectList(where, whereParams) ==
    IF ~Truthy(where) THEN <<>>
    ELSE IF whereParams.tag # "undef"
    THEN (IF whereParams.tag = "list" THEN whereParams.l ELSE <<whereParams.v>>)
    ELSE IF where.tag = "map" THEN ObjectValues(where.map)
    ELSE <<>>

buildWhereParams(where, whereParams) ==
    IF ~Truthy(where) THEN <<>>
    ELSE IF whereParams.tag # "undef"
    THEN (IF whereParams.tag = "list" THEN whereParams.l ELSE <<whereParams.v>>)
    ELSE IF where.tag = "map" THEN ObjectValues(where.map)
    ELSE IF IsArray(where) /\ ArrayLength(where) > 0 /\ where.tag = "maps"
    THEN Flat([i \in DOMAIN where.maps |->
                 IF where.maps[i].null THEN <<>> ELSE ObjectValues(where.maps[i].map)])
    ELSE <<>>

---------------------------------------------------------------------------
(* ChunkPlanner: the chunk table getChunk builds from the base query's     *)
(* rows.  A result set is the sequence of its rows' id fields, NoId for a  *)
(* row without one; data[i] of the code is data[i + 1] here.               *)

FirstChunkRows == 20
ChunkRows == 1000
NoId == -1

RowId(data, i) == data[i + 1]

\* the same loop with the window end one row too far
RECURSIVE ChunkLoop_endOffByOne(_, _, _)
ChunkLoop_endOffByOne(data, i, chunkTable) ==
    IF i < Len(data)
    THEN ChunkLoop_endOffByOne(data, i + ChunkRows,
             Append(chunkTable,
                 <<RowId(data, i),
                   RowId(data, IF i + ChunkRows < Len(data) - 1
                               THEN i + ChunkRows ELSE Len(data) - 1)>>))
    ELSE chunkTable

\* the for loop of lines 424-426, from index i on
RECURSIVE ChunkLoop(_, _, _)
ChunkLoop(data, i, chunkTable) ==
    IF i < Len(data)
    THEN ChunkLoop(data, i + ChunkRows,
             Append(chunkTable,
                 <<RowId(data, i),
                   RowId(data, IF i + ChunkRows - 1 < Len(data) - 1
                               THEN i + ChunkRows - 1 ELSE Len(data) - 1)>>))
    ELSE chunkTable

\* lines 420-426 on the rows the base query returned: the table, or the
\* error thrown (data[0] of an empty result is undefined, and reading its id
\* is a TypeError; an undefined id of the first row is 'id is required')
ChunkTableOf(data) ==
    IF Len(data) = 0 THEN [threw |-> "TypeError", table |-> <<>>]
    ELSE IF RowId(data, 0) = NoId THEN [threw |-> "id is required", table |-> <<>>]
    ELSE [threw |-> "",
          table |-> ChunkLoop(data, FirstChunkRows,
                        << <<RowId(data, 0),
                             RowId(data, IF Len(data) > FirstChunkRows
                                         THEN FirstChunkRows - 1 ELSE Len(data) - 1)>> >>)]

---------------------------------------------------------------------------
(* Bounds of the model and the inputs drawn from them.                     *)

MaxKeys == 2        \* keys per field-to-value mapping
MaxVal == 2         \* mapping values are 1..MaxVal
MaxList == 2        \* elements per list-shaped WhereSpec
MaxOverride == 2    \* entries of a list-shaped parameter override
OverrideVal == 9    \* the value an override carries

KeyNames == { <<"i","d">>, <<"o","r">>, <<"a","?">> }
Entries == [k : KeyNames, v : 1..MaxVal]

SeqsUpTo(S, n) == UNION { [1..len -> S] : len \in 0..n }

Mappings ==
    { m \in SeqsUpTo(Entries, MaxKeys) :
        \A i, j \in DOMAIN m : i # j => m[i].k # m[j].k }

RawStrings == {
    <<>>,
    <<"i","d"," ","="," ","1">>,
    <<"i","d"," ","="," ","?">>,
    <<"a"," ","="," ","?"," ","O","R"," ","b"," ","="," ","?">> }

\* the mappings used as list elements: values 1, 2, ... by key position
ListMappings == { m \in Mappings : \A i \in DOMAIN m : m[i].v = ((i - 1) % MaxVal) + 1 }

MapElements ==
    {[null |-> TRUE, map |-> <<>>]} \cup {[null |-> FALSE, map |-> m] : m \in ListMappings}

WhereSpecs ==
    {WNone}
    \cup {WStr(s) : s \in RawStrings}
    \cup {WStrs(l) : l \in SeqsUpTo(RawStrings, MaxList) \ {<<>>}}
    \cup {WMap(m) : m \in Mappings}
    \cup {WMaps(l) : l \in SeqsUpTo(MapElements, MaxList)}

Overrides ==
    {PUndef, PScalar(OverrideVal)}
    \cup {PList(l) : l \in SeqsUpTo({OverrideVal}, MaxOverride)}

NotRun == [done |-> FALSE]

MaxRows == 2025     \* rows of the base query
MaxIdStep == 2      \* ids are FirstId, FirstId + step, ...: step in 1..MaxIdStep
FirstId == 5

\* the rows of a base query over n rows with ascending ids; hasId is FALSE
\* when the selected fields do not include id
BaseRows(n, step, hasId) ==
    [i \in 1..n |-> IF hasId THEN FirstId + step * (i - 1) ELSE NoId]

---------------------------------------------------------------------------
(* The initial state of the facade: a constructed, unconfigured MariaDB.   *)

Procs == {1, 2}     \* the requests that can be in flight together
Idle == [op |-> "none"]
NoResult == [kind |-> "none", what |-> "", total |-> 0]
NoConfig == [host |-> FALSE, user |-> FALSE, password |-> FALSE,
             database |-> FALSE, connectionLimit |-> 0]

FacadeInit ==
    /\ dbConfig = NoConfig
    /\ pool = [up |-> FALSE, limit |-> 0]
    /\ held = 0
    /\ chunkCache = {}
    /\ pc = [p \in Procs |-> "idle"]
    /\ req = [p \in Procs |-> Idle]
    /\ sent = [p \in Procs |-> <<>>]
    /\ res = [p \in Procs |-> NoResult]

---------------------------------------------------------------------------
(* SpecWhere: the WHERE compiler applied to every WhereSpec and override   *)
(* of the bounded input sets.                                              *)

InitWhere ==
    /\ FacadeInit
    /\ rows = 0
    /\ arg \in [where : WhereSpecs, whereParams : Overrides]
    /\ ret = NotRun

\* lines 296-297 and 352-353: parameters first, then the text, from one input
CompileWhere ==
    /\ ~ret.done
    /\ ret' = [done |-> TRUE,
               text |-> buildWhere(arg.where),
               params |-> buildWhereParams(arg.where, arg.whereParams)]
    /\ UNCHANGED <<arg, facadeVars>>

NextWhere == CompileWhere

SpecWhere == InitWhere /\ [][NextWhere]_vars

---------------------------------------------------------------------------
(* C1 *)

KeysOf(where) ==
    IF where.tag = "map" THEN Range(ObjectKeys(where.map))
    ELSE UNION { Range(ObjectKeys(where.maps[i].map)) : i \in DOMAIN where.maps }

NormalisedOverride(whereParams) ==
    IF whereParams.tag = "undef" THEN <<>>
    ELSE IF whereParams.tag = "list" THEN whereParams.l
    ELSE <<whereParams.v>>

\* C1 as stated: for every WhereSpec and every override, the number of '?'
\* in the text of buildWhere equals the length of the vector of
\* buildWhereParams.
C1_ParityForAnyInput ==
    ret.done => CountQ(ret.text) = Len(ret.params)

\* C1 amended: the placeholder count equals the parameter vector length for
\* an empty WhereSpec, and for a mapping or list of mappings compiled without
\* an override whose keys contain no '?'; for raw strings, and whenever an
\* override is given for a non-empty WhereSpec, the vector is the override
\* normalised to a list (empty without one), whatever the text holds.
C1_ParityWhereDerived ==
    ret.done =>
        /\ ~Truthy(arg.where) =>
               CountQ(ret.text) = 0 /\ ret.params = <<>>
        /\ ( /\ arg.where.tag \in {"map", "maps"}
             /\ arg.whereParams.tag = "undef"
             /\ \A key \in KeysOf(arg.where) : CountQ(key) = 0 ) =>
               CountQ(ret.text) = Len(ret.params)
        /\ ( /\ Truthy(arg.where)
             /\ \/ arg.where.tag \in {"str", "strs"}
                \/ arg.whereParams.tag # "undef" ) =>
               ret.params = NormalisedOverride(arg.whereParams)

\* a list of mappings with a null element, compiled without override, with
\* two or more placeholders
C1_Witness ==
    /\ ret.done
    /\ arg.where.tag = "maps"
    /\ arg.whereParams.tag = "undef"
    /\ \E i \in DOMAIN arg.where.maps : arg.where.maps[i].null
    /\ \A key \in KeysOf(arg.where) : CountQ(key) = 0
    /\ CountQ(ret.text) >= 2

---------------------------------------------------------------------------
(* C3 *)

\* text is exactly: key1 = ? AND key2 = ? ... for the given entries, each key
\* as protectFieldName writes it, in the order of the entries
RECURSIVE ReadsAsPredicates(_, _)
ReadsAsPredicates(text, entries) ==
    IF Len(entries) = 0 THEN text = <<>>
    ELSE LET head == protectFieldName(entries[1].k) \o TxtEqQ
         IN  /\ StartsWith(text, head)
             /\ IF Len(entries) = 1 THEN Len(text) = Len(head)
                ELSE /\ StartsWith(Drop(text, Len(head)), TxtAnd)
                     /\ ReadsAsPredicates(Drop(text, Len(head) + Len(TxtAnd)), Tail(entries))

\* the closing parenthesis of the group that opens at text[1]: keys hold none
ClosingParen(text) ==
    IF \E i \in DOMAIN text : text[i] = ")"
    THEN CHOOSE i \in DOMAIN text : text[i] = ")" /\ \A j \in 1..(i - 1) : text[j] # ")"
    ELSE 0

\* text is exactly: (group1) OR (group2) ... for the given non-null mappings
RECURSIVE ReadsAsGroups(_, _)
ReadsAsGroups(text, mappings) ==
    IF Len(mappings) = 0 THEN text = <<>>
    ELSE LET close == ClosingParen(text)
         IN  /\ StartsWith(text, <<"(">>)
             /\ close > 0
             /\ ReadsAsPredicates(SubSeq(text, 2, close - 1), mappings[1])
             /\ IF Len(mappings) = 1 THEN Len(text) = close
                ELSE /\ StartsWith(Drop(text, close), TxtOr)
                     /\ ReadsAsGroups(Drop(text, close + Len(TxtOr)), Tail(mappings))

\* the mappings of a WhereSpec that are not null, in list order
RECURSIVE NonNull(_)
NonNull(elements) ==
    IF Len(elements) = 0 THEN <<>>
    ELSE (IF elements[1].null THEN <<>> ELSE <<elements[1].map>>) \o NonNull(Tail(elements))

---------------------------------------------------------------------------
(* SpecChunkTable: the chunk table of every row count up to MaxRows.       *)

InitChunkTable ==
    /\ FacadeInit
    /\ rows = 0
    /\ arg \in [n : 0..MaxRows, step : 1..MaxIdStep, hasId : BOOLEAN]
    /\ ret = NotRun

\* lines 420-426
BuildChunkTable ==
    /\ ~ret.done
    /\ LET built == ChunkTableOf(BaseRows(arg.n, arg.step, arg.hasId))
       IN  ret' = [done |-> TRUE, threw |-> built.threw, table |-> built.table]
    /\ UNCHANGED <<arg, facadeVars>>

NextChunkTable == BuildChunkTable

SpecChunkTable == InitChunkTable /\ [][NextChunkTable]_vars

(* C2 *)

\* the 0-based row position of an id of the base query
PosOf(id) == (id - FirstId) \div arg.step

\* C2: the windows of a built chunk table cover positions 0..N-1 without gap
\* or overlap; window 0 is 0..min(20,N)-1, every later window k starts at
\* 20 + 1000*(k-1) and has 1000 rows, except the last, which ends at N-1.
C2_WindowsPartitionRows ==
    (ret.done /\ ret.threw = "") =>
        LET t == ret.table
            first(k) == PosOf(t[k][1])
            last(k) == PosOf(t[k][2])
        IN  /\ Len(t) >= 1
            /\ first(1) = 0
            /\ last(1) = (IF arg.n < 20 THEN arg.n ELSE 20) - 1
            /\ last(Len(t)) = arg.n - 1
            /\ \A k \in 1..Len(t) : first(k) <= last(k)
            /\ \A k \in 1..(Len(t) - 1) : first(k + 1) = last(k) + 1
            /\ \A k \in 2..Len(t) :
                   /\ first(k) = 20 + 1000 * (k - 2)
                   /\ k < Len(t) => last(k) - first(k) + 1 = 1000

\* a table of four windows whose last window is shorter than 1000 rows
C2_Witness ==
    /\ ret.done
    /\ ret.threw = ""
    /\ Len(ret.table) = 4
    /\ arg.step = 2
    /\ PosOf(ret.table[4][2]) - PosOf(ret.table[4][1]) + 1 < 1000

---------------------------------------------------------------------------
(* ExecutionFacade: config, query, execute and batch.                      *)
(*                                                                         *)
(* A call runs synchronously up to its first await on the pooled client;   *)
(* what it has done by then is its outcome: finished with a result, or     *)
(* suspended at pc `next` after handing `stmt` to the pool.                *)

DefaultConnectionLimit == 5

Throws(what) == [kind |-> "throw", what |-> what, total |-> 0]
Returns(what) == [kind |-> "return", what |-> what, total |-> 0]
ReturnsTotal(n) == [kind |-> "return", what |-> "total", total |-> n]

\* a statement handed to the pooled client: api is the client method, values
\* the bind vector (hasValues FALSE: the argument was omitted), groups the
\* parameter groups of a batch, named the namedPlaceholders option
NoStmt == [api |-> "none", sql |-> <<>>, hasValues |-> FALSE, values |-> <<>>,
           groups |-> <<>>, named |-> FALSE]
Stmt(api, sql, hasValues, values, groups, named) ==
    [api |-> api, sql |-> sql, hasValues |-> hasValues, values |-> values,
     groups |-> groups, named |-> named]

Finished(result) == [next |-> "done", res |-> result, stmt |-> NoStmt]
Sends(stmt, next) == [next |-> next, res |-> NoResult, stmt |-> stmt]
Suspends(next) == [next |-> next, res |-> NoResult, stmt |-> NoStmt]

TxtSelectLower == <<"s","e","l","e","c","t">>
TxtLimitLower == <<"l","i","m","i","t">>

\* lines 119-126: query up to the await of pool.query
queryCall(sql, hasValues, values, valuesIsObject) ==
    IF ~pool.up THEN Finished(Throws("pool is not initialized"))
    ELSE Sends(Stmt("query", sql, hasValues, values, <<>>,
                    StartsWith(toLowerCase(sql), TxtSelectLower) /\ valuesIsObject),
               "awaitQuery")

\* line 128: /\blimit\s+1\b/i.test(sql)
MatchesLimit1(sql) ==
    \E i \in DOMAIN sql : \E j \in DOMAIN sql :
        /\ i + 5 < j
        /\ toLowerCase(SubSeq(sql, i, i + 4)) = TxtLimitLower
        /\ i > 1 => ~IsWordChar(sql[i - 1])
        /\ \A k \in (i + 5)..(j - 1) : sql[k] = " "
        /\ sql[j] = "1"
        /\ j < Len(sql) => ~IsWordChar(sql[j + 1])

\* lines 126-131: what query returns for the pool's result: a result set of
\* n rows (isRows), or the UpsertResult of a write statement
queryReturn(sql, isRows, n) ==
    IF isRows /\ n = 1 /\ MatchesLimit1(sql) THEN Returns("row")
    ELSE IF isRows THEN Returns("rows")
    ELSE Returns("upsert")

\* lines 447-450: execute up to the await of pool.execute
executeCall(sql, hasValues, values) ==
    IF ~pool.up THEN Finished(Returns("error: pool is not initialized"))
    ELSE Sends(Stmt("execute", sql, hasValues, values, <<>>, FALSE), "awaitExecute")

\* lines 453-456: batch up to the await of pool.getConnection
batchCall(sql, groups) ==
    IF ~pool.up THEN Finished(Throws("pool is not initialized"))
    ELSE Suspends("awaitConn")

\* a call begins: the request p is free, and runs to its first await
Begin(p, call, outcome) ==
    /\ pc[p] = "idle"
    /\ req' = [req EXCEPT ![p] = call]
    /\ sent' = [sent EXCEPT ![p] =
                   IF outcome.stmt.api = "none" THEN <<>> ELSE <<outcome.stmt>>]
    /\ pc' = [pc EXCEPT ![p] = outcome.next]
    /\ res' = [res EXCEPT ![p] = outcome.res]

\* a suspended call resumes and runs to its next await or to its end
Resume(p, outcome) ==
    /\ sent' = [sent EXCEPT ![p] =
                   IF outcome.stmt.api = "none" THEN @ ELSE Append(@, outcome.stmt)]
    /\ pc' = [pc EXCEPT ![p] = outcome.next]
    /\ res' = [res EXCEPT ![p] = outcome.res]

\* the caller's await settles: it has the result, and p is free again
Settle(p) ==
    /\ pc[p] = "done"
    /\ pc' = [pc EXCEPT ![p] = "idle"]
    /\ req' = [req EXCEPT ![p] = Idle]
    /\ sent' = [sent EXCEPT ![p] = <<>>]
    /\ res' = [res EXCEPT ![p] = NoResult]
    /\ UNCHANGED <<stateVars, fnVars>>

ConfigInputs ==
    { [host |-> TRUE, user |-> TRUE, password |-> TRUE, database |-> TRUE,
       connectionLimit |-> 0],
      [host |-> TRUE, user |-> TRUE, password |-> TRUE, database |-> TRUE,
       connectionLimit |-> 1],
      [host |-> TRUE, user |-> TRUE, password |-> FALSE, database |-> TRUE,
       connectionLimit |-> 0] }

\* lines 88-94
Config(cfg) ==
    LET merged == [host |-> dbConfig.host \/ cfg.host,
                   user |-> dbConfig.user \/ cfg.user,
                   password |-> dbConfig.password \/ cfg.password,
                   database |-> dbConfig.database \/ cfg.database,
                   connectionLimit |-> IF cfg.connectionLimit = 0
                                       THEN DefaultConnectionLimit
                                       ELSE cfg.connectionLimit]
    IN  /\ dbConfig' = merged
        /\ pool' = IF /\ merged.host /\ merged.database /\ merged.user /\ merged.password
                      /\ ~pool.up
                   THEN [up |-> TRUE, limit |-> merged.connectionLimit]
                   ELSE pool
        /\ UNCHANGED <<held, chunkCache, rows, reqVars, fnVars>>

\* the database's answer to a SELECT: every row, or the first dbLimit of them
DbCount(dbLimit) == IF dbLimit > 0 /\ dbLimit < rows THEN dbLimit ELSE rows

QueryInputs ==
    { [sql |-> <<"S","E","L","E","C","T"," ","*"," ","F","R","O","M"," ","t">>, hasValues |-> FALSE, values |-> <<>>,
       valuesIsObject |-> FALSE, dbLimit |-> 0],
      [sql |-> <<"s","e","l","e","c","t"," ","*"," ","f","r","o","m"," ","t"," ","w","h","e","r","e"," ","i","d"," ","="," ",":","i","d"," ","l","i","m","i","t"," ","1">>, hasValues |-> TRUE,
       values |-> <<1>>, valuesIsObject |-> TRUE, dbLimit |-> 1],
      [sql |-> <<"S","E","L","E","C","T"," ","*"," ","F","R","O","M"," ","t"," ","W","H","E","R","E"," ","a"," ","="," ","?"," ","L","I","M","I","T"," ","1","0">>, hasValues |-> TRUE,
       values |-> <<1>>, valuesIsObject |-> FALSE, dbLimit |-> 10],
      [sql |-> <<"U","P","D","A","T","E"," ","t"," ","S","E","T"," ","a"," ","="," ",":","a">>, hasValues |-> TRUE, values |-> <<2>>,
       valuesIsObject |-> TRUE, dbLimit |-> 0] }

\* query called by the application
Query(p) ==
    /\ pc[p] = "idle"
    /\ \E in \in QueryInputs : Begin(p, [op |-> "query", in |-> in],
             queryCall(in.sql, in.hasValues, in.values, in.valuesIsObject))
    /\ UNCHANGED <<stateVars, fnVars>>

ExecuteInputs ==
    { [sql |-> <<"D","E","L","E","T","E"," ","F","R","O","M"," ","t">>, hasValues |-> FALSE, values |-> <<>>],
      [sql |-> <<"I","N","S","E","R","T"," ","I","N","T","O"," ","t"," ","(","a",")"," ","V","A","L","U","E","S"," ","(","?",")">>, hasValues |-> TRUE, values |-> <<1>>] }

\* execute called by the application
Execute(p) ==
    /\ pc[p] = "idle"
    /\ \E in \in ExecuteInputs : Begin(p, [op |-> "execute", in |-> in], executeCall(in.sql, in.hasValues, in.values))
    /\ UNCHANGED <<stateVars, fnVars>>

BatchInputs ==
    { [sql |-> <<"I","N","S","E","R","T"," ","I","N","T","O"," ","t"," ","(","a",")"," ","V","A","L","U","E","S"," ","(","?",")">>, groups |-> << <<1>>, <<2>> >>] }

\* batch called by the application
Batch(p) ==
    /\ pc[p] = "idle"
    /\ \E in \in BatchInputs : Begin(p, [op |-> "batch", in |-> in], batchCall(in.sql, in.groups))
    /\ UNCHANGED <<stateVars, fnVars>>

---------------------------------------------------------------------------
(* StatementAssembler: insert, delete, update and objectUpdate.            *)
(*                                                                         *)
(* A table argument is [def, name] (def FALSE: undefined).  A values       *)
(* argument is [def, isArray, list]: a single record is a list of one with *)
(* isArray FALSE.  A record is its entries in Object.keys order.           *)

Undefined == 0      \* the value of a field a record does not have

TxtUndefined == <<"u","n","d","e","f","i","n","e","d">>

\* `${x}` of a string or undefined
Render(x) == IF x.def THEN x.name ELSE TxtUndefined

\* !x of a string or undefined
Missing(x) == ~x.def \/ Len(x.name) = 0

HasKey(record, key) == \E i \in DOMAIN record : record[i].k = key

\* record[key]
Lookup(record, key) ==
    IF HasKey(record, key)
    THEN record[CHOOSE i \in DOMAIN record : record[i].k = key].v
    ELSE Undefined

\* Array.prototype.filter(field => field !== whereField) on a key list
RECURSIVE Without(_, _)
Without(keys, key) ==
    IF Len(keys) = 0 THEN <<>>
    ELSE (IF keys[1] = key THEN <<>> ELSE <<keys[1]>>) \o Without(Tail(keys), key)

\* Array.isArray(values) ? values : [values]
valuesArrayOf(values) == values.list

\* lines 205-227: insert up to the await inside execute
insertCall(table, values) ==
    LET valuesArray == valuesArrayOf(values)
        keys == ObjectKeys(valuesArray[1])
        protectedKeys == [i \in DOMAIN keys |-> protectFieldName(keys[i])]
        placeholders ==
            Join([r \in DOMAIN valuesArray |->
                    <<"(">> \o Join([i \in DOMAIN keys |-> <<"?">>], <<",">>) \o <<")">>],
                 <<",">>)
        flatValues ==
            Flat([r \in DOMAIN valuesArray |->
                    [i \in DOMAIN keys |-> Lookup(valuesArray[r], keys[i])]])
        sql == <<"I","N","S","E","R","T"," ","I","N","T","O"," ">> \o Render(table) \o <<" ","(">> \o Join(protectedKeys, <<",">>)
               \o <<")"," ","V","A","L","U","E","S"," ">> \o placeholders
    IN  IF ~values.def THEN Finished(Throws("TypeError"))
        ELSE IF Len(valuesArray) = 0 THEN Finished(Returns("upsert"))
        ELSE executeCall(sql, TRUE, flatValues)

\* lines 276-280: delete up to the await inside execute
deleteCall(table, where, params) ==
    IF Missing(table) \/ ~Truthy(where)
    THEN Finished(Throws("table and where is required"))
    ELSE executeCall(<<"D","E","L","E","T","E"," ","F","R","O","M"," ">> \o Render(table) \o <<" ","W","H","E","R","E"," ">> \o where.str,
                     TRUE, params)

\* lines 299-301: the UPDATE text
updateSql(table, valuesArray, where) ==
    <<"U","P","D","A","T","E"," ">> \o Render(table) \o <<" ","S","E","T"," ">>
    \o Join([i \in DOMAIN valuesArray[1] |->
               protectFieldName(valuesArray[1][i].k) \o <<" ","="," ","?">>], <<",">>)
    \o <<" ","W","H","E","R","E"," ">> \o where

\* lines 303-304: the bind vector passed with the UPDATE
updateValues(valuesArray, whereParams) ==
    Flat([r \in DOMAIN valuesArray |-> ObjectValues(valuesArray[r])]) \o whereParams

\* lines 284-305: update up to the await inside query
updateCall(params) ==
    IF ~Truthy(params.where) THEN Finished(Throws("where is required"))
    ELSE IF params.values.def /\ Len(valuesArrayOf(params.values)) = 0
    THEN Finished(Throws("values is required"))
    ELSE IF ~params.values.def THEN Finished(Throws("TypeError"))
    ELSE LET valuesArray == valuesArrayOf(params.values)
             whereParams == buildWhereParams(params.where, params.whereParams)
             where == buildWhere(params.where)
         IN  queryCall(updateSql(params.table, valuesArray, where), TRUE,
                       updateValues(valuesArray, whereParams), FALSE)

\* line 159: the first record's fields other than whereField
firstRecordFields(values, whereField) ==
    Without(ObjectKeys(values[1]), whereField)

\* the same check without the comparison of the field counts
allHaveSameFields_noLength(values, whereField) ==
    \A r \in DOMAIN values :
        LET fields == Without(ObjectKeys(values[r]), whereField)
        IN  \A i \in DOMAIN fields :
                fields[i] \in Range(firstRecordFields(values, whereField))

\* lines 160-164
allHaveSameFields(values, whereField) ==
    \A r \in DOMAIN values :
        LET fields == Without(ObjectKeys(values[r]), whereField)
        IN  /\ Len(fields) = Len(firstRecordFields(values, whereField))
            /\ \A i \in DOMAIN fields :
                   fields[i] \in Range(firstRecordFields(values, whereField))

\* lines 169-171: the batch statement text
objectUpdateQuery(table, values, whereField) ==
    LET fields == firstRecordFields(values, whereField)
    IN  <<"U","P","D","A","T","E"," ">> \o Render(table) \o <<" ","S","E","T"," ">>
        \o Join([i \in DOMAIN fields |-> fields[i] \o <<" ","="," ","?">>], <<","," ">>)
        \o <<" ","W","H","E","R","E"," ">> \o whereField \o <<" ","="," ","?">>

\* lines 174-178: one parameter group per record
batchParams(values, whereField) ==
    LET fields == firstRecordFields(values, whereField)
    IN  [r \in DOMAIN values |->
            [i \in DOMAIN fields |-> Lookup(values[r], fields[i])]
            \o <<Lookup(values[r], whereField)>>]

\* line 153: whereField = 'id' unless given
TxtId == <<"i","d">>
whereFieldOf(options) == IF options.whereField.def THEN options.whereField.name ELSE TxtId

\* lines 152-187: objectUpdate up to the await inside batch
objectUpdateCall(options) ==
    LET whereField == whereFieldOf(options)
        values == options.values.list
    IN  IF \/ Missing(options.table) \/ ~options.values.def \/ Len(whereField) = 0
           \/ ~options.values.isArray \/ Len(values) = 0
        THEN Finished(Throws("Invalid parameters"))
        ELSE IF \E r \in DOMAIN values : ~HasKey(values[r], whereField)
        THEN Finished(Throws("whereField is missing"))
        ELSE IF ~allHaveSameFields(values, whereField)
        THEN Finished(Throws("All records must have the same fields"))
        ELSE batchCall(objectUpdateQuery(options.table, values, whereField),
                       batchParams(values, whereField))

\* the statement a request suspended in batch hands to its connection
batchStmtOf(r) ==
    IF r.op = "batch" THEN Stmt("batch", r.in.sql, TRUE, <<>>, r.in.groups, FALSE)
    ELSE Stmt("batch",
              objectUpdateQuery(r.in.table, r.in.values.list, whereFieldOf(r.in)),
              TRUE, <<>>, batchParams(r.in.values.list, whereFieldOf(r.in)), FALSE)

---------------------------------------------------------------------------
(* The write operations as called by the application, and their inputs.    *)

MaxRecords == 2     \* records per values list

Rec(keys, vals) == [i \in DOMAIN keys |-> [k |-> keys[i], v |-> vals[i]]]

RecordPool ==
    { Rec(<<<<"i","d">>, <<"a">>>>, <<1, 11>>),
      Rec(<<<<"a">>, <<"i","d">>>>, <<21, 2>>),
      Rec(<<<<"i","d">>, <<"a">>, <<"b">>>>, <<3, 31, 32>>),
      Rec(<<<<"b">>, <<"a">>, <<"i","d">>>>, <<42, 41, 4>>),
      Rec(<<<<"i","d">>, <<"b">>>>, <<5, 52>>),
      Rec(<<<<"a">>>>, <<61>>),
      <<>> }

SmallRecordPool ==
    { Rec(<<<<"i","d">>, <<"a">>>>, <<1, 11>>),
      Rec(<<<<"a">>, <<"o","r">>>>, <<21, 22>>),
      <<>> }

ValuesOver(records) ==
    {[def |-> FALSE, isArray |-> FALSE, list |-> <<>>]}
    \cup {[def |-> TRUE, isArray |-> FALSE, list |-> <<r>>] : r \in records}
    \cup {[def |-> TRUE, isArray |-> TRUE, list |-> l] : l \in SeqsUpTo(records, MaxRecords)}

Tables == { [def |-> TRUE, name |-> <<"t">>], [def |-> FALSE, name |-> <<>>] }

WhereFields == { [def |-> FALSE, name |-> <<>>], [def |-> TRUE, name |-> <<"a">>],
                 [def |-> TRUE, name |-> <<>>] }

FacadeWheres ==
    { WNone,
      WStr(<<>>),
      WStr(<<"i","d"," ","="," ","1">>),
      WStr(<<"i","d"," ","="," ","?">>),
      WStrs(<<<<"a"," ","="," ","?">>, <<"b"," ","="," ","2">>>>),
      WMap(Rec(<<<<"i","d">>>>, <<7>>)),
      WMap(<<>>),
      WMaps(<<>>),
      WMaps(<<[null |-> FALSE, map |-> Rec(<<<<"i","d">>, <<"o","r">>>>, <<7, 8>>)],
              [null |-> TRUE, map |-> <<>>],
              [null |-> FALSE, map |-> Rec(<<<<"a">>>>, <<9>>)]>>) }

FacadeOverrides == { PUndef, PScalar(OverrideVal), PList(<<OverrideVal, OverrideVal>>) }

InsertInputs == [table : {t \in Tables : t.def}, values : ValuesOver(SmallRecordPool)]

Insert(p) ==
    /\ pc[p] = "idle"
    /\ \E in \in InsertInputs : Begin(p, [op |-> "insert", in |-> in], insertCall(in.table, in.values))
    /\ UNCHANGED <<stateVars, fnVars>>

DeleteInputs ==
    [table : Tables,
     where : {WNone, WStr(<<>>), WStr(<<"i","d"," ","="," ","1">>), WStr(<<"i","d"," ","="," ","?">>)},
     params : {<<>>, <<OverrideVal>>}]

Delete(p) ==
    /\ pc[p] = "idle"
    /\ \E in \in DeleteInputs : Begin(p, [op |-> "delete", in |-> in], deleteCall(in.table, in.where, in.params))
    /\ UNCHANGED <<stateVars, fnVars>>

UpdateInputs ==
    [table : Tables, values : ValuesOver(SmallRecordPool),
     where : FacadeWheres, whereParams : FacadeOverrides]

Update(p) ==
    /\ pc[p] = "idle"
    /\ \E in \in UpdateInputs : Begin(p, [op |-> "update", in |-> in], updateCall(in))
    /\ UNCHANGED <<stateVars, fnVars>>

ObjectUpdateInputs ==
    [table : Tables, values : ValuesOver(RecordPool), whereField : WhereFields]

ObjectUpdate(p) ==
    /\ pc[p] = "idle"
    /\ \E in \in ObjectUpdateInputs : Begin(p, [op |-> "objectUpdate", in |-> in], objectUpdateCall(in))
    /\ UNCHANGED <<stateVars, fnVars>>

---------------------------------------------------------------------------
(* The pooled client answers.                                              *)

LastSent(p) == sent[p][Len(sent[p])]

\* pool.query resolves: query post-processes the result and its caller
\* (the application, or update) returns it
PoolQueryOk(p) ==
    /\ pc[p] = "awaitQuery"
    /\ Resume(p, Finished(
           IF req[p].op = "query"
           THEN queryReturn(LastSent(p).sql,
                            StartsWith(toLowerCase(LastSent(p).sql), TxtSelectLower),
                            DbCount(req[p].in.dbLimit))
           ELSE queryReturn(LastSent(p).sql, FALSE, 0)))
    /\ UNCHANGED <<req, stateVars, fnVars>>

\* pool.query rejects: nothing catches the error
PoolQueryFail(p) ==
    /\ pc[p] = "awaitQuery"
    /\ Resume(p, Finished(Throws("driver error")))
    /\ UNCHANGED <<req, stateVars, fnVars>>

\* pool.execute resolves (line 450), for execute, insert and delete
PoolExecuteOk(p) ==
    /\ pc[p] = "awaitExecute"
    /\ Resume(p, Finished(Returns("upsert")))
    /\ UNCHANGED <<req, stateVars, fnVars>>

PoolExecuteFail(p) ==
    /\ pc[p] = "awaitExecute"
    /\ Resume(p, Finished(Throws("driver error")))
    /\ UNCHANGED <<req, stateVars, fnVars>>

\* line 456 resolves with a free connection; line 457 hands it the statement
ConnAcquired(p) ==
    /\ pc[p] = "awaitConn"
    /\ held < pool.limit
    /\ held' = held + 1
    /\ Resume(p, Sends(batchStmtOf(req[p]), "awaitBatch"))
    /\ UNCHANGED <<req, dbConfig, pool, chunkCache, rows, fnVars>>

\* line 456 rejects (no connection within the pool's acquire timeout)
ConnFail(p) ==
    /\ pc[p] = "awaitConn"
    /\ Resume(p, Finished(Throws("driver error")))
    /\ UNCHANGED <<req, stateVars, fnVars>>

\* line 457 resolves; lines 458-459 release the connection and return
BatchOk(p) ==
    /\ pc[p] = "awaitBatch"
    /\ held' = held - 1
    /\ Resume(p, Finished(Returns("upsert")))
    /\ UNCHANGED <<req, dbConfig, pool, chunkCache, rows, fnVars>>

\* line 457 rejects: the error leaves batch before line 458
BatchFail(p) ==
    /\ pc[p] = "awaitBatch"
    /\ Resume(p, Finished(Throws("driver error")))
    /\ UNCHANGED <<req, stateVars, fnVars>>

---------------------------------------------------------------------------
(* StatementAssembler: select.                                             *)
(*                                                                         *)
(* A QueryParams value: def FALSE is an undefined argument; command "" is  *)
(* undefined; select, from, join, group and order are lists (a single      *)
(* string is a list of one, an empty list is undefined); limit, page and   *)
(* offset 0 are undefined; chunk is [kind, i] with kind "undef", "count"   *)
(* (the marker '?') or "index".                                            *)

\* String.prototype.trim
RECURSIVE Trim(_)
Trim(s) ==
    IF Len(s) > 0 /\ s[1] = " " THEN Trim(Tail(s))
    ELSE IF Len(s) > 0 /\ s[Len(s)] = " " THEN Trim(SubSeq(s, 1, Len(s) - 1))
    ELSE s

\* String.prototype.split(/\s+/) of a trimmed string
RECURSIVE SplitSpaces(_)
SplitSpaces(s) ==
    IF \A i \in DOMAIN s : s[i] # " " THEN <<s>>
    ELSE LET i == CHOOSE j \in DOMAIN s : s[j] = " " /\ \A k \in 1..(j - 1) : s[k] # " "
         IN  <<SubSeq(s, 1, i - 1)>> \o SplitSpaces(Trim(Drop(s, i)))

\* lines 319-326: one select item
protectSelectItem(item) ==
    IF \/ Includes(toLowerCase(item), <<" ","a","s"," ">>)
       \/ Includes(item, <<"(">>)
       \/ item = <<"*">>
    THEN item
    ELSE protectFieldName(item)

\* lines 371-377: one order item
protectOrderItem(item) ==
    LET parts == SplitSpaces(Trim(item))
    IN  IF Len(parts) > 1
        THEN protectFieldName(parts[1]) \o <<" ">> \o Join(Tail(parts), <<" ">>)
        ELSE protectFieldName(item)

\* line 313: where = '1=1' unless given
whereOf(params) ==
    IF params.where.tag = "none" THEN WStr(<<"1","=","1">>) ELSE params.where

\* lines 350-355: the text the variable where holds afterwards
whereTextOf(params) ==
    IF Truthy(whereOf(params)) THEN buildWhere(whereOf(params)) ELSE <<>>

\* lines 350-355 and 408: the bind vector select passes to query
whereParamsOf(params) ==
    IF Truthy(whereOf(params)) THEN buildWhereParams(whereOf(params), params.whereParams)
    ELSE IF params.whereParams.tag = "list" THEN params.whereParams.l
    ELSE IF params.whereParams.tag = "scalar" THEN <<params.whereParams.v>>
    ELSE <<>>

\* lines 314-315
commandOf(params) ==
    IF params.command = ""
    THEN (IF params.limit > 1 THEN "findMany" ELSE "findFirst")
    ELSE params.command

chunkOf(params) ==
    IF commandOf(params) = "findAll" /\ params.chunk.kind = "undef"
    THEN [kind |-> "index", i |-> 0]
    ELSE params.chunk

\* lines 339-347
joinSql(params) ==
    LET joinType == IF ~params.joinType.def THEN [i \in DOMAIN params.join |-> <<"L","E","F","T">>]
                    ELSE IF ~params.joinType.isArray
                    THEN [i \in DOMAIN params.join |-> params.joinType.list[1]]
                    ELSE [i \in DOMAIN params.join |->
                            IF i \in DOMAIN params.joinType.list
                            THEN params.joinType.list[i] ELSE TxtUndefined]
    IN  Flat([i \in DOMAIN params.join |->
                <<" ">> \o joinType[i] \o <<" ","J","O","I","N"," ">> \o params.join[i]])

\* lines 329-390: the statement before any chunk predicate (the base SQL)
selectSql(params) ==
    <<"S","E","L","E","C","T"," ">> \o Join([i \in DOMAIN params.select |-> protectSelectItem(params.select[i])],
                        <<","," ">>)
    \o <<" ","F","R","O","M"," ">> \o Join(params.from, <<","," ">>)
    \o joinSql(params)
    \o (IF Truthy(whereOf(params)) THEN <<" ","W","H","E","R","E"," ">> \o whereTextOf(params) ELSE <<>>)
    \o (IF Len(params.group) > 0
        THEN <<" ","G","R","O","U","P"," ","B","Y"," ">>
             \o Join([i \in DOMAIN params.group |-> protectFieldName(params.group[i])], <<","," ">>)
        ELSE <<>>)
    \o (IF Len(params.order) > 0
        THEN <<" ","O","R","D","E","R"," ","B","Y"," ">>
             \o Join([i \in DOMAIN params.order |-> protectOrderItem(params.order[i])], <<","," ">>)
        ELSE <<>>)
    \o (IF params.limit > 0
        THEN <<" ","L","I","M","I","T"," ">> \o NumText(params.limit)
             \o (IF params.page > 1
                 THEN <<" ","O","F","F","S","E","T"," ">> \o NumText((params.page - 1) * params.limit)
                 ELSE IF params.offset > 0 THEN <<" ","O","F","F","S","E","T"," ">> \o NumText(params.offset)
                 ELSE <<>>)
        ELSE <<>>)

\* lines 399-405: the statement with the chunk predicate
chunkSql(params, start, end) ==
    selectSql(params)
    \o (IF Len(whereTextOf(params)) > 0 THEN <<" ","A","N","D"," ","i","d"," ","B","E","T","W","E","E","N"," ">> ELSE <<" ","W","H","E","R","E"," ","i","d"," ","B","E","T","W","E","E","N"," ">>)
    \o NumText(start) \o <<" ","A","N","D"," ">> \o NumText(end)

\* line 408: select hands its statement to query
selectQuery(sql, params) ==
    [queryCall(sql, TRUE, whereParamsOf(params), FALSE) EXCEPT !.next = "awaitData"]

\* lines 310-408: select up to its first await
selectCall(params) ==
    IF ~pool.up THEN Finished(Returns("error: pool is not initialized"))
    ELSE IF ~params.def THEN Finished(Returns("error: params is required"))
    ELSE IF chunkOf(params).kind # "undef" THEN Suspends("awaitCache")
    ELSE selectQuery(selectSql(params), params)

\* lines 409-413: what select returns for what query returned
selectReturn(params, n, queryResult) ==
    IF queryResult.what = "rows" /\ commandOf(params) = "findFirst" /\ n > 0
    THEN (IF params.asArray THEN Returns("rows") ELSE Returns("row"))
    ELSE queryResult

\* getChunk answering an index past the last window with the last window
chunkAnswer_clamped(chunkTable, chunk) ==
    IF chunk.kind = "count"
    THEN [null |-> TRUE, start |-> 0, end |-> 0, total |-> Len(chunkTable)]
    ELSE LET i == IF chunk.i >= Len(chunkTable) THEN Len(chunkTable) ELSE chunk.i + 1
         IN  [null |-> FALSE, start |-> chunkTable[i][1],
              end |-> chunkTable[i][2], total |-> Len(chunkTable)]

\* lines 429-431: what getChunk returns for a chunk table
chunkAnswer(chunkTable, chunk) ==
    IF chunk.kind = "index" /\ chunk.i >= Len(chunkTable)
    THEN [null |-> TRUE, start |-> 0, end |-> 0, total |-> Len(chunkTable)]
    ELSE IF chunk.kind = "count"
    THEN [null |-> TRUE, start |-> 0, end |-> 0, total |-> Len(chunkTable)]
    ELSE [null |-> FALSE, start |-> chunkTable[chunk.i + 1][1],
          end |-> chunkTable[chunk.i + 1][2], total |-> Len(chunkTable)]

\* lines 394-408: select after getChunk returned
selectAfterChunk(params, answer) ==
    IF chunkOf(params).kind = "count" THEN Finished(ReturnsTotal(answer.total))
    ELSE IF answer.null THEN Finished(ReturnsTotal(answer.total))
    ELSE selectQuery(chunkSql(params, answer.start, answer.end), params)

\* line 418: cache.get('chunk' + sql)
cacheGet(key) ==
    IF \E e \in chunkCache : e.key = key
    THEN [found |-> TRUE, table |-> (CHOOSE e \in chunkCache : e.key = key).table]
    ELSE [found |-> FALSE, table |-> <<>>]

\* line 427: cache.set('chunk' + sql, chunkTable)
cacheSet(key, chunkTable) ==
    {e \in chunkCache : e.key # key} \cup {[key |-> key, table |-> chunkTable]}

\* a store that keeps the table it already holds
storeChunkTable_ifAbsent(key, chunkTable) ==
    IF cacheGet(key).found THEN chunkCache ELSE cacheSet(key, chunkTable)

\* the store after getChunk built a table: line 427, whatever the store holds
storeChunkTable(key, chunkTable) == cacheSet(key, chunkTable)

\* whether the rows of the select carry an id field
hasIdField(params) ==
    \E i \in DOMAIN params.select : params.select[i] \in {<<"*">>, TxtId}

---------------------------------------------------------------------------
(* select and getChunk as steps of a request.                              *)

NoJoinType == [def |-> FALSE, isArray |-> FALSE, list |-> <<>>]
NoChunk == [kind |-> "undef", i |-> 0]
CountOnly == [kind |-> "count", i |-> 0]
ChunkIndex(i) == [kind |-> "index", i |-> i]

\* a QueryParams value with every optional field undefined
QueryParams(select, where, whereParams, limit, chunk) ==
    [def |-> TRUE, command |-> "", select |-> select, from |-> <<<<"t">>>>,
     join |-> <<>>, joinType |-> NoJoinType, where |-> where,
     whereParams |-> whereParams, order |-> <<>>, group |-> <<>>,
     limit |-> limit, page |-> 0, offset |-> 0, chunk |-> chunk, asArray |-> FALSE]

NoParams == [QueryParams(<<>>, WNone, PUndef, 0, NoChunk) EXCEPT !.def = FALSE]

\* select called by the application
Select(p, inputs) ==
    /\ pc[p] = "idle"
    /\ \E in \in inputs : Begin(p, [op |-> "select", in |-> in, missed |-> FALSE, chunkTable |-> <<>>],
             selectCall(in))
    /\ UNCHANGED <<stateVars, fnVars>>

\* line 418 resolves.  On a hit getChunk returns at once and select goes on;
\* on a miss line 421 hands the base statement to query, without values
CacheAnswer(p) ==
    /\ pc[p] = "awaitCache"
    /\ LET sql == selectSql(req[p].in)
           cached == cacheGet(sql)
       IN  IF cached.found
           THEN /\ Resume(p, selectAfterChunk(req[p].in,
                                 chunkAnswer(cached.table, chunkOf(req[p].in))))
                /\ req' = [req EXCEPT ![p].chunkTable = cached.table]
           ELSE /\ Resume(p, [queryCall(sql, FALSE, <<>>, FALSE) EXCEPT !.next = "awaitBase"])
                /\ req' = [req EXCEPT ![p].missed = TRUE]
    /\ UNCHANGED <<stateVars, fnVars>>

\* what query returns to getChunk for the base statement: the rows, or the
\* bare row when line 128 unwraps a one-row result
baseData(params) ==
    LET n == DbCount(params.limit)
    IN  [unwrapped |-> n = 1 /\ MatchesLimit1(selectSql(params)),
         data |-> BaseRows(n, MaxIdStep, hasIdField(params))]

\* line 421 resolves: lines 422-431 build and store the table, and select
\* goes on.  data[0] of a bare row is undefined, as of an empty result
BaseQueryOk(p) ==
    /\ pc[p] = "awaitBase"
    /\ LET base == baseData(req[p].in)
           built == IF base.unwrapped THEN [threw |-> "TypeError", table |-> <<>>]
                    ELSE ChunkTableOf(base.data)
       IN  IF built.threw # ""
           THEN /\ Resume(p, Finished(Throws(built.threw)))
                /\ UNCHANGED <<req, chunkCache>>
           ELSE /\ chunkCache' = storeChunkTable(selectSql(req[p].in), built.table)
                /\ req' = [req EXCEPT ![p].chunkTable = built.table]
                /\ Resume(p, selectAfterChunk(req[p].in,
                                 chunkAnswer(built.table, chunkOf(req[p].in))))
    /\ UNCHANGED <<dbConfig, pool, held, rows, fnVars>>

BaseQueryFail(p) ==
    /\ pc[p] = "awaitBase"
    /\ Resume(p, Finished(Throws("driver error")))
    /\ UNCHANGED <<req, stateVars, fnVars>>

\* line 408 resolves: lines 409-413
DataQueryOk(p) ==
    /\ pc[p] = "awaitData"
    /\ LET n == DbCount(req[p].in.limit)
       IN  Resume(p, Finished(selectReturn(req[p].in, n,
                                  queryReturn(LastSent(p).sql, TRUE, n))))
    /\ UNCHANGED <<req, stateVars, fnVars>>

DataQueryFail(p) ==
    /\ pc[p] = "awaitData"
    /\ Resume(p, Finished(Throws("driver error")))
    /\ UNCHANGED <<req, stateVars, fnVars>>

\* the table changes between statements
DbChange(n) ==
    /\ n # rows
    /\ rows' = n
    /\ UNCHANGED <<dbConfig, pool, held, chunkCache, reqVars, fnVars>>

---------------------------------------------------------------------------
(* Spec: one application request at a time against the facade.             *)

FacadeRowCounts == {0, 1, 3}

PlainSelects ==
    { NoParams,
      QueryParams(<<<<"*">>>>, WNone, PUndef, 0, NoChunk),
      QueryParams(<<<<"i","d">>, <<"o","r","d","e","r">>>>, WMap(Rec(<<<<"i","d">>>>, <<7>>)), PUndef, 1, NoChunk),
      QueryParams(<<<<"*">>>>, WStr(<<"a"," ","="," ","?">>), PScalar(OverrideVal), 5, NoChunk) }

Init ==
    /\ FacadeInit
    /\ rows \in FacadeRowCounts
    /\ arg = <<>>
    /\ ret = NotRun

\* the one caller of the facade specification
Caller == CHOOSE p \in Procs : \A q \in Procs : p <= q

Next ==
    \/ \E cfg \in ConfigInputs : Config(cfg)
    \/ Query(Caller)
    \/ Execute(Caller)
    \/ Batch(Caller)
    \/ Insert(Caller)
    \/ Delete(Caller)
    \/ Update(Caller)
    \/ ObjectUpdate(Caller)
    \/ Select(Caller, PlainSelects)
    \/ PoolQueryOk(Caller)
    \/ PoolQueryFail(Caller)
    \/ PoolExecuteOk(Caller)
    \/ PoolExecuteFail(Caller)
    \/ ConnAcquired(Caller)
    \/ ConnFail(Caller)
    \/ BatchOk(Caller)
    \/ BatchFail(Caller)
    \/ DataQueryOk(Caller)
    \/ DataQueryFail(Caller)
    \/ Settle(Caller)

Spec == Init /\ [][Next]_vars

---------------------------------------------------------------------------
(* C4 *)

\* C4: once a batch or objectUpdate has ended, with a result or with the
\* driver's error, its connection has been released: no connection is held
\* while no request is in flight.
C4_ConnectionReleasedOnEveryPath ==
    (\A p \in Procs : pc[p] \in {"idle", "done"}) => held = 0

(* C5 *)

PoolOps == {"query", "select", "execute", "batch", "insert", "update", "delete"}

\* an insert of an empty list returns before it needs the pool (line 210)
NeedsPool(r) ==
    ~(r.op = "insert" /\ r.in.values.def /\ Len(r.in.values.list) = 0)

\* C5: a call made while the pool is not initialized ends as a failure
\* thrown to the caller, not as a returned value, and sends no statement.
C5_UninitializedPoolIsAFailure ==
    \A p \in Procs :
        (pc[p] = "done" /\ ~pool.up /\ req[p].op \in PoolOps /\ NeedsPool(req[p])) =>
            /\ res[p].kind = "throw"
            /\ sent[p] = <<>>

(* C6 *)

InvalidUpdate(in) ==
    \/ Missing(in.table)
    \/ ~Truthy(in.where)
    \/ (in.values.def /\ in.values.isArray /\ Len(in.values.list) = 0)

InvalidDelete(in) == Missing(in.table) \/ ~Truthy(in.where)

\* C6: an update without table, without WHERE or with an empty value list,
\* and a delete without table or without WHERE, end with an error thrown
\* and no statement handed to the pool.
C6_InvalidRequestSendsNothing ==
    \A p \in Procs :
        ( \/ req[p].op = "update" /\ InvalidUpdate(req[p].in)
          \/ req[p].op = "delete" /\ InvalidDelete(req[p].in) ) =>
            /\ sent[p] = <<>>
            /\ pc[p] = "done"
            /\ res[p].kind = "throw"

(* C7 *)

InvalidRequestErrors ==
    {"Invalid parameters", "whereField is missing", "All records must have the same fields"}

\* the names of a record's fields other than the key field
NonKeyFieldSet(record, whereField) == Range(ObjectKeys(record)) \ {whereField}

ValueOf(record, key) == (CHOOSE e \in Range(record) : e.k = key).v

\* C7: objectUpdate with a record that lacks the key field, or whose non-key
\* field names differ from the first record's, throws an invalid-request
\* error without asking for a connection or sending a statement; and the
\* batch it does send carries, for every record, the values of the first
\* record's non-key fields in the first record's order, then the key value.
C7_ObjectUpdateChecksFieldSets ==
    \A p \in Procs :
        (req[p].op = "objectUpdate" /\ req[p].in.values.def /\ req[p].in.values.isArray
         /\ Len(req[p].in.values.list) > 0) =>
            LET values == req[p].in.values.list
                whereField == whereFieldOf(req[p].in)
                order == SelectSeq(ObjectKeys(values[1]), LAMBDA k : k # whereField)
                mismatch ==
                    \/ \E r \in DOMAIN values : whereField \notin Range(ObjectKeys(values[r]))
                    \/ \E r \in DOMAIN values :
                           NonKeyFieldSet(values[r], whereField)
                               # NonKeyFieldSet(values[1], whereField)
            IN  /\ mismatch =>
                    /\ pc[p] = "done"
                    /\ res[p].kind = "throw"
                    /\ res[p].what \in InvalidRequestErrors
                    /\ sent[p] = <<>>
                /\ sent[p] # <<>> =>
                    /\ ~mismatch
                    /\ Len(sent[p]) = 1
                    /\ sent[p][1].api = "batch"
                    /\ Len(sent[p][1].groups) = Len(values)
                    /\ \A r \in DOMAIN values :
                           sent[p][1].groups[r] =
                               [i \in DOMAIN order |-> ValueOf(values[r], order[i])]
                               \o <<ValueOf(values[r], whereField)>>

\* a batch sent for two records that list the same fields in different order
C7_Witness ==
    \E p \in Procs :
        /\ req[p].op = "objectUpdate"
        /\ pc[p] = "awaitBatch"
        /\ Len(req[p].in.values.list) = 2
        /\ ObjectKeys(req[p].in.values.list[1]) # ObjectKeys(req[p].in.values.list[2])
        /\ Len(sent[p][1].groups[2]) = 3

(* C8 *)

\* C8: the bind vector of an update statement is the value parameters
\* followed by the WHERE parameters, and has as many entries as the UPDATE
\* text has '?', for one value row and for several (given a valid request, a WHERE
\* whose own placeholders and parameters agree, and keys that hold no '?').
C8_UpdateVectorMirrorsPlaceholders ==
    \A p \in Procs :
        ( /\ req[p].op = "update"
          /\ ~InvalidUpdate(req[p].in)
          /\ sent[p] # <<>>
          /\ CountQ(buildWhere(req[p].in.where))
                 = Len(buildWhereParams(req[p].in.where, req[p].in.whereParams))
          /\ \A r \in DOMAIN req[p].in.values.list :
                 \A key \in Range(ObjectKeys(req[p].in.values.list[r])) : CountQ(key) = 0 ) =>
            LET whereParams == buildWhereParams(req[p].in.where, req[p].in.whereParams)
                vector == sent[p][1].values
            IN  /\ Len(vector) = CountQ(sent[p][1].sql)
                /\ Len(vector) >= Len(whereParams)
                /\ SubSeq(vector, Len(vector) - Len(whereParams) + 1, Len(vector)) = whereParams

---------------------------------------------------------------------------
(* SpecChunk: two chunked selects in flight over one cache.                *)

ChunkRowCounts == {0, 3, 25}

ChunkKinds == {CountOnly, ChunkIndex(0), ChunkIndex(1)}

ChunkSelects ==
    { QueryParams(<<<<"*">>>>, WNone, PUndef, 0, chunk) : chunk \in ChunkKinds }
    \cup { QueryParams(<<<<"a">>>>, WNone, PUndef, 0, chunk) : chunk \in ChunkKinds }
    \cup { QueryParams(<<<<"*">>>>, WNone, PUndef, 1, chunk) : chunk \in ChunkKinds }

FullConfig ==
    [host |-> TRUE, user |-> TRUE, password |-> TRUE, database |-> TRUE,
     connectionLimit |-> 0]

InitChunk ==
    /\ FacadeInit
    /\ rows \in ChunkRowCounts
    /\ arg = <<>>
    /\ ret = NotRun

NextChunk ==
    \/ Config(FullConfig)
    \/ \E p \in Procs : Select(p, ChunkSelects)
    \/ \E p \in Procs : CacheAnswer(p)
    \/ \E p \in Procs : BaseQueryOk(p)
    \/ \E p \in Procs : BaseQueryFail(p)
    \/ \E p \in Procs : DataQueryOk(p)
    \/ \E p \in Procs : DataQueryFail(p)
    \/ \E p \in Procs : Settle(p)
    \/ \E n \in ChunkRowCounts : DbChange(n)

SpecChunk == InitChunk /\ [][NextChunk]_vars

---------------------------------------------------------------------------
(* C9 *)

\* the base statement of a chunked select, as getChunk hands it to query
BaseStmtOf(in) == Stmt("query", selectSql(in), FALSE, <<>>, <<>>, FALSE)

ChunkedSelect(p) ==
    req[p].op = "select" /\ req[p].in.def /\ chunkOf(req[p].in).kind # "undef"

\* the request asks for the count, or for an index that the table it got
\* from the cache or built itself does not have
CountOnlyRequest(p) ==
    /\ ChunkedSelect(p)
    /\ \/ chunkOf(req[p].in).kind = "count"
       \/ /\ Len(req[p].chunkTable) > 0
          /\ chunkOf(req[p].in).i >= Len(req[p].chunkTable)

C9_SendsBaseQueryOnly ==
    \A p \in Procs :
        CountOnlyRequest(p) =>
            /\ pc[p] # "awaitData"
            /\ sent[p] = (IF req[p].missed THEN <<BaseStmtOf(req[p].in)>> ELSE <<>>)
            /\ (pc[p] = "done" /\ res[p].kind = "return"
                /\ res[p].what # "error: pool is not initialized") =>
                   /\ res[p].what = "total"
                   /\ res[p].total = Len(req[p].chunkTable)

C9_HitSendsNothing ==
    \A p \in Procs :
        (pc[p] = "awaitCache" /\ pc'[p] # "awaitCache") =>
            LET cached == cacheGet(selectSql(req[p].in))
                chunk == chunkOf(req[p].in)
            IN  IF ~cached.found
                THEN sent'[p] = <<BaseStmtOf(req[p].in)>> /\ req'[p].missed
                ELSE (chunk.kind = "count" \/ chunk.i >= Len(cached.table)) =>
                         /\ sent'[p] = <<>>
                         /\ ~req'[p].missed
                         /\ res'[p] = ReturnsTotal(Len(cached.table))

BuiltTable(p) ==
    /\ pc[p] = "awaitBase"
    /\ pc'[p] # "awaitBase"
    /\ res'[p].what # "driver error"
    /\ Len(req'[p].chunkTable) > 0

C10_EachMissRunsItsOwnBaseQuery ==
    \A p \in Procs :
        (ChunkedSelect(p) /\ req[p].missed) =>
            /\ sent[p] # <<>>
            /\ sent[p][1] = BaseStmtOf(req[p].in)

\* a request that finds no entry sends the base statement in that very step,
\* whatever the other request is doing
C10_MissDoesNotWait ==
    \A p \in Procs :
        (pc[p] = "awaitCache" /\ pc'[p] # "awaitCache"
         /\ ~cacheGet(selectSql(req[p].in)).found) =>
            /\ pc'[p] = "awaitBase"
            /\ sent'[p] = <<BaseStmtOf(req[p].in)>>

C10_EveryBuiltTableIsStored ==
    \A p \in Procs :
        BuiltTable(p) =>
            \E e \in chunkCache' :
                /\ e.key = selectSql(req[p].in)
                /\ e.table = req'[p].chunkTable
                /\ e.table = ChunkTableOf(baseData(req[p].in).data).table

\* C10: two chunked selects of the same base statement that both miss the
\* cache each run the base query themselves, neither waiting for the other,
\* and each stores the table it built over whatever the cache holds, so the
\* entry is the table of the request that stored last.
C10_ConcurrentMissesLastWriteWins ==
    /\ []C10_EachMissRunsItsOwnBaseQuery
    /\ [][C10_MissDoesNotWait /\ C10_EveryBuiltTableIsStored]_vars

\* both requests missed on the same statement, built different tables, and
\* the cache holds the second one's over the first one's
C10_Witness ==
    /\ \A p \in Procs : ChunkedSelect(p) /\ req[p].missed /\ pc[p] = "done"
    /\ selectSql(req[1].in) = selectSql(req[2].in)
    /\ Len(req[1].chunkTable) > 0
    /\ Len(req[2].chunkTable) > 0
    /\ req[1].chunkTable # req[2].chunkTable
    /\ cacheGet(selectSql(req[1].in)).table = req[2].chunkTable

---------------------------------------------------------------------------
(* SpecProtect: protectFieldName applied to a name, then to its own result. *)

MaxIdent == 5       \* characters of an identifier

\* a letter of a reserved word in both cases, a plain letter, the dot, the
\* backtick and a special character
IdentChars == {"o", "r", "R", ".", BQ, " "}

Identifiers == SeqsUpTo(IdentChars, MaxIdent)

InitProtect ==
    /\ FacadeInit
    /\ rows = 0
    /\ arg \in Identifiers
    /\ ret = [done |-> FALSE, times |-> 0, first |-> <<>>, out |-> <<>>]

\* one call of protectFieldName: on the name, then on what the call before
\* returned
ProtectField ==
    /\ ret.times < 2
    /\ LET out == protectFieldName(IF ret.done THEN ret.out ELSE arg)
       IN  ret' = [done |-> TRUE, times |-> ret.times + 1,
                   first |-> IF ret.done THEN ret.first ELSE out, out |-> out]
    /\ UNCHANGED <<arg, facadeVars>>

NextProtect == ProtectField

SpecProtect == InitProtect /\ [][NextProtect]_vars

(* C11 *)

\* C11: protectFieldName is idempotent: applied to its own result it returns
\* that result, for plain names, dotted paths, reserved words in any letter
\* case, names with special characters and names with backticks anywhere.
C11_ProtectIsIdempotent ==
    ret.times = 2 => ret.out = ret.first

\* a dotted path that holds a backtick and a reserved word in upper case,
\* changed by the first call and protected a second time
C11_Witness ==
    /\ ret.times = 2
    /\ ret.first # arg
    /\ \E i \in DOMAIN Split(arg, ".") : Split(arg, ".")[i] = <<"o", "R">>
    /\ Includes(arg, <<".">>)
    /\ Includes(arg, <<BQ>>)

---------------------------------------------------------------------------
(* SpecChunkSql: one caller iterating the chunks of one query, over every  *)
(* combination of WHERE, GROUP BY, ORDER BY and LIMIT/OFFSET.              *)

ClauseWheres == { WNone, WStr(<<>>), WMap(Rec(<<<<"a">>>>, <<7>>)) }

\* the application's query: arg holds it, without the chunk it asks for
ClauseSelects ==
    { [QueryParams(<<<<"*">>>>, where, PUndef, limit, NoChunk)
          EXCEPT !.group = group, !.order = order, !.offset = offset] :
        where \in ClauseWheres,
        group \in {<<>>, <<<<"a">>>>},
        order \in {<<>>, <<<<"i","d"," ","d","e","s","c">>>>},
        limit \in {0, 5},
        offset \in {0, 2} }

InitChunkSql ==
    /\ FacadeInit
    /\ rows \in ChunkRowCounts
    /\ arg \in ClauseSelects
    /\ ret = NotRun

NextChunkSql ==
    \/ Config(FullConfig)
    \/ Select(Caller, {[arg EXCEPT !.chunk = chunk] : chunk \in ChunkKinds})
    \/ CacheAnswer(Caller)
    \/ BaseQueryOk(Caller)
    \/ BaseQueryFail(Caller)
    \/ DataQueryOk(Caller)
    \/ DataQueryFail(Caller)
    \/ Settle(Caller)
    \/ \E n \in ChunkRowCounts : DbChange(n)

SpecChunkSql == InitChunkSql /\ [][NextChunkSql]_vars

(* C12 *)

\* the first position of part in text, or one past the end of text
FirstIndexOf(text, part) ==
    IF Includes(text, part)
    THEN CHOOSE i \in 1..Len(text) :
             /\ SubSeq(text, i, i + Len(part) - 1) = part
             /\ \A j \in 1..(i - 1) : SubSeq(text, j, j + Len(part) - 1) # part
    ELSE Len(text) + 1

Least(S) == CHOOSE x \in S : \A y \in S : x <= y

\* where the WHERE clause of a statement ends: at its first GROUP BY, ORDER BY
\* or LIMIT clause, or at its end
WhereClauseEnd(sql) ==
    Least({ FirstIndexOf(sql, <<" ","G","R","O","U","P"," ","B","Y"," ">>),
            FirstIndexOf(sql, <<" ","O","R","D","E","R"," ","B","Y"," ">>),
            FirstIndexOf(sql, <<" ","L","I","M","I","T"," ">>) })

\* the predicate of window [start, end], joined to the condition there is
BetweenPredicate(base, start, end) ==
    (IF Includes(base, <<" ","W","H","E","R","E"," ">>) THEN <<" ","A","N","D"," ">> ELSE <<" ","W","H","E","R","E"," ">>)
    \o <<"i","d"," ","B","E","T","W","E","E","N"," ">> \o NumText(start) \o <<" ","A","N","D"," ">> \o NumText(end)

\* C12: the data statement of a chunk inside the window range is the base
\* statement with 'id BETWEEN start AND end' at the end of its WHERE clause
\* (AND-combined, or as the sole WHERE), before any GROUP BY, ORDER BY or
\* LIMIT clause.
C12_PredicateInsideWhereClause ==
    \A p \in Procs :
        (ChunkedSelect(p) /\ pc[p] = "awaitData") =>
            LET base == selectSql(req[p].in)
                window == req[p].chunkTable[chunkOf(req[p].in).i + 1]
                at == WhereClauseEnd(base)
            IN  LastSent(p).sql =
                    SubSeq(base, 1, at - 1)
                    \o BetweenPredicate(base, window[1], window[2])
                    \o SubSeq(base, at, Len(base))

(* C13 *)

\* C13: every statement select sends for a chunked request, the base query
\* of a cache miss as much as the data query, is bound with the request's
\* WHERE parameter vector, so none runs with fewer parameters than its text
\* has placeholders.
C13_EveryStatementCarriesWhereParams ==
    \A p \in Procs :
        ChunkedSelect(p) =>
            \A i \in DOMAIN sent[p] :
                /\ sent[p][i].values = whereParamsOf(req[p].in)
                /\ Len(sent[p][i].values) >= CountQ(sent[p][i].sql)

===========================================================================
